---- MODULE Spec2Model ----
(***************************************************************************)
(* Model of shoutcast.Stream (src/stream.go): the ICY demultiplexer.       *)
(* A Stream wraps an io.ReadCloser `rc` whose body is the wire stream      *)
(*   [metaint audio bytes][1 length byte][length*16 metadata bytes] ...    *)
(* Read pulls one chunk from rc into the caller's buffer p, removes at     *)
(* most one metadata block from it and returns the remaining byte count    *)
(* together with rc's status.  Close closes rc.                            *)
(***************************************************************************)
EXTENDS Integers, Sequences, FiniteSets, TLC

\* ---------------------------------------------------------------- bounds
MaxMetaint  == 2    \* the server declares a metaint in 1..MaxMetaint
NumBlocks   == 2    \* metadata blocks on the wire
MaxLenByte  == 1    \* largest length byte the server sends
NumTitles   == 2    \* distinct announcement texts
SmallBuf    == 4    \* len(p) of a caller with a small buffer
BigBuf      == 19   \* len(p) of a caller whose buffer holds a whole block
MaxExtraCap == 1    \* cap(p) - len(p) ranges over 0..MaxExtraCap
MaxClose    == 2    \* Close is called at most this many times

\* ------------------------------------------------------ program constants
BlockUnit == 16     \* metadataLength := int(lengthByte) * 16

VARIABLES
    metaint,        \* Stream.metaint
    metadata,       \* Stream.metadata: "nil" or the decoded snapshot
    pos,            \* Stream.pos
    callbackSet,    \* Stream.MetadataCallbackFunc != nil
    blocks,         \* rc: the metadata blocks the server sends, <<len byte, title>>
    wire,           \* rc: the body the server sends, WireOf(metaint, blocks)
    off,            \* rc: number of wire bytes delivered so far
    rcCloseCalls,   \* rc: number of times rc.Close() has been performed
    p,              \* the caller's buffer (backing array, Len(p) = cap(p))
    lenP,           \* len(p)
    pc,             \* "idle", "blocked" (inside rc.Read) or "fault" (Read panicked)
    last,           \* record of the most recent Read that left rc.Read
    cbLog,          \* snapshots passed to MetadataCallbackFunc, in call order
    opened          \* the call of Open: its arguments and what it returned

vars == <<metaint, metadata, pos, callbackSet, blocks, wire, off, rcCloseCalls,
          p, lenP, pc, last, cbLog, opened>>

\* ------------------------------------------------------------- the wire
Min(a, b) == IF a < b THEN a ELSE b

Zeros(k) == [i \in 1..k |-> 0]

\* audio bytes are numbered so that loss or reordering is visible
AudioByte(j) == 64 + j

TitleByte(t) == 87 + t

NoBlock == <<0, 0>>

BlockChoices ==
    {NoBlock} \cup {<<l, t>> : l \in 1..MaxLenByte, t \in 1..NumTitles}

\* titles are numbered in order of first appearance
MaxTitle(bs, u) ==
    LET ts == {bs[i][2] : i \in 1..(u - 1)} \cup {0}
    IN  CHOOSE t \in ts : \A x \in ts : x <= t

Bodies ==
    {bs \in [1..NumBlocks -> BlockChoices] :
        \A u \in 1..NumBlocks : bs[u][2] <= MaxTitle(bs, u) + 1}

\* payload of a block: the announcement text, null-padded to len*16 bytes
Payload(b) ==
    [i \in 1..(b[1] * BlockUnit) |-> IF i = 1 THEN TitleByte(b[2]) ELSE 0]

AudioRun(u, mi) == [i \in 1..mi |-> AudioByte((u - 1) * mi + i)]

\* unit u of the wire: metaint audio bytes, the length byte, the payload
Unit(u, mi, bs) == AudioRun(u, mi) \o <<bs[u][1]>> \o Payload(bs[u])

RECURSIVE Units(_, _, _)
Units(u, mi, bs) ==
    IF u = 0 THEN <<>> ELSE Units(u - 1, mi, bs) \o Unit(u, mi, bs)

\* the whole body: NumBlocks units and a last run of audio
WireOf(mi, bs) == Units(Len(bs), mi, bs) \o AudioRun(Len(bs) + 1, mi)

\* ------------------------------------------------- Metadata value type
\* NewMetadata: decode a raw block; trailing null padding is discarded
RECURSIVE NewMetadata(_)
NewMetadata(b) ==
    IF b = <<>> THEN <<>>
    ELSE IF b[Len(b)] = 0 THEN NewMetadata(SubSeq(b, 1, Len(b) - 1))
    ELSE b

\* m.Equals(other): value equality of the decoded content; nil equals nothing
Equals(m, other) == other # "nil" /\ m = other

\* ------------------------------------------------------------------ Open
Digits == <<"0", "1", "2", "3", "4", "5", "6", "7", "8", "9">>

IsDigit(c) == \E d \in 1..10 : Digits[d] = c

DigitVal(c) == CHOOSE d \in 0..9 : Digits[d + 1] = c

RECURSIVE DecVal(_)
DecVal(ds) ==
    IF ds = <<>> THEN 0
    ELSE DecVal(SubSeq(ds, 1, Len(ds) - 1)) * 10 + DigitVal(ds[Len(ds)])

\* strconv.Atoi on a header value (a sequence of characters; the empty
\* sequence is what Header.Get returns for an absent header): an optional
\* sign and at least one decimal digit.  The values here are far from the
\* 64-bit range, whose overflow Atoi reports as an error.
Atoi(h) ==
    LET signed == h # <<>> /\ h[1] \in {"+", "-"}
        body   == IF signed THEN Tail(h) ELSE h
        ok     == body # <<>> /\ \A i \in 1..Len(body) : IsDigit(body[i])
    IN  [ok  |-> ok,
         val |-> IF ~ok THEN 0
                 ELSE IF h[1] = "-" THEN 0 - DecVal(body) ELSE DecVal(body)]

\* the decimal text of a one-digit number
Decimal(k) == <<Digits[k + 1]>>

\* an Open that does not look at the bitrate header's parse error
OpenResultSkipsBitrate(url, conn, hbr, hmi) ==
    LET in == [url |-> url, conn |-> conn, hbr |-> hbr, hmi |-> hmi]
        no == [state |-> "err", stream |-> FALSE, err |-> "do", in |-> in,
               Bitrate |-> 0, metaint |-> 0]
    IN  IF url = "bad" THEN [no EXCEPT !.state = "fault", !.err = "nil"]
        ELSE IF ~conn THEN no
        ELSE IF ~Atoi(hmi).ok THEN [no EXCEPT !.err = "cannot parse metaint"]
        ELSE [no EXCEPT !.state = "ok", !.stream = TRUE, !.err = "nil",
                        !.Bitrate = Atoi(hbr).val, !.metaint = Atoi(hmi).val]

\* Open (lines 50-96) as a function of the URL ("ok": http.NewRequest builds
\* the request, "bad": it returns (nil, err)), of whether client.Do succeeds
\* and of the icy-br and icy-metaint headers of the response.
\* Line 53 keeps err but line 54 uses req without looking at it.
OpenResult(url, conn, hbr, hmi) ==
    LET in == [url |-> url, conn |-> conn, hbr |-> hbr, hmi |-> hmi]
        no == [state |-> "err", stream |-> FALSE, err |-> "do", in |-> in,
               Bitrate |-> 0, metaint |-> 0]
    IN  IF url = "bad"
        THEN \* req is nil: req.Header dereferences a nil pointer
             [no EXCEPT !.state = "fault", !.err = "nil"]
        ELSE IF ~conn THEN no
        ELSE IF ~Atoi(hbr).ok THEN [no EXCEPT !.err = "cannot parse bitrate"]
        ELSE IF ~Atoi(hmi).ok THEN [no EXCEPT !.err = "cannot parse metaint"]
        ELSE [no EXCEPT !.state = "ok", !.stream = TRUE, !.err = "nil",
                        !.Bitrate = Atoi(hbr).val, !.metaint = Atoi(hmi).val]

\* header values a server may send
BrHeaders == {<<>>, <<"x">>, <<"1", "2">>}

MiHeaders ==
    {<<>>, <<"x">>, <<"-">>, <<"2", "x">>, <<"0">>, <<"-", "1">>, <<"2">>}

\* the Open call behind a Stream with a valid metaint
OpenedWith(mi) == OpenResult("ok", TRUE, <<"1", "2">>, Decimal(mi))

NotOpened ==
    [state |-> "none", stream |-> FALSE, err |-> "nil",
     in |-> [url |-> "ok", conn |-> TRUE, hbr |-> <<>>, hmi |-> <<>>],
     Bitrate |-> 0, metaint |-> 0]

\* ------------------------------------------------------------ Stream.Read
\* s.pos = s.pos + n
\* a Read that forgets the bytes already counted
PassPosNoCarry(sp, k) == k

PassPos(sp, k) == sp + k

\* metadataStart := s.metaint - s.pos
MetadataStart(mi, sp) == mi - sp

\* metadataLength := int(p[metadataStart : metadataStart+1][0]) * 16
MetadataLength(buf, ms) == buf[ms + 1] * BlockUnit

\* s.pos = ((s.pos + n) - s.metaint) - metadataLength - 1
RollOver(sp, k, mi, ml) == ((sp + k) - mi) - ml - 1

\* a Read that forgets to count the length byte
ReturnedKeepsLengthByte(k, ml) == k - ml

\* n = n - 1 - metadataLength
Returned(k, ml) == k - 1 - ml

\* a Read that replaces the snapshot only when a callback is installed
ReplacedOnlyWithCallback(changed, cb) == changed /\ cb

\* s.metadata = m: inside `if !m.Equals(s.metadata)`, outside the nil check
Replaced(changed, cb) == changed

\* a Read that announces every block it decodes, changed or not
CalledOnEveryBlock(changed, cb) == cb

\* the callback runs inside `if !m.Equals(s.metadata)`, when it is not nil
Called(changed, cb) == changed /\ cb

\* s.MetadataCallbackFunc(s.metadata): s.metadata is already the new one
CallbackArg(new, old) == new

\* a copy that starts one byte early and keeps the last payload byte
CompactOffByOne(buf, len, ms, ml) ==
    [i \in 1..Len(buf) |->
        IF i > ms /\ i <= len - ml THEN buf[i + ml] ELSE buf[i]]

\* copy(p[metadataStart:], p[metadataStart+1+metadataLength:])
\* both slices end at len(p); copy moves the shorter length, as memmove
Compact(buf, len, ms, ml) ==
    LET cnt == len - (ms + 1 + ml)
    IN  [i \in 1..Len(buf) |->
            IF i > ms /\ i <= ms + cnt THEN buf[i + 1 + ml] ELSE buf[i]]

\* lines 102-127, run on the buffer buf (len(p) = len, cap(p) = Len(buf)) in
\* which rc.Read stored k bytes and returned status e; cb: the callback is set
ReadBody(sp, mi, md, cb, buf, len, k, e) ==
    LET ms   == MetadataStart(mi, sp)
        cap  == Len(buf)
        base == [fault |-> FALSE, pos |-> sp, metadata |-> md, called |-> FALSE,
                 p |-> buf, ret |-> k, err |-> e, path |-> "pass",
                 ms |-> 0, ml |-> 0, m |-> "none", arg |-> "none"]
    IN
    IF sp + k <= mi
    THEN [base EXCEPT !.pos = PassPos(sp, k)]
    ELSE IF ms < 0 \/ ms + 1 > cap
    THEN \* p[metadataStart : metadataStart+1] is out of range
         [base EXCEPT !.fault = TRUE, !.path = "extract", !.ms = ms]
    ELSE
    LET ml  == MetadataLength(buf, ms)
        ext == [base EXCEPT !.path = "extract", !.ms = ms, !.ml = ml]
    IN
    IF ml > 0 /\ ms + 1 + ml > cap
    THEN \* p[metadataStart+1 : metadataStart+1+metadataLength] is out of range
         [ext EXCEPT !.fault = TRUE]
    ELSE
    LET m       == NewMetadata(SubSeq(buf, ms + 2, ms + 1 + ml))
        changed == ml > 0 /\ ~Equals(m, md)
        upd     == [ext EXCEPT !.metadata = IF Replaced(changed, cb)
                                           THEN m ELSE md,
                               !.called = Called(changed, cb),
                               !.arg = CallbackArg(m, md),
                               !.m = IF ml > 0 THEN m ELSE "none",
                               !.pos = RollOver(sp, k, mi, ml)]
    IN
    IF ms + 1 + ml > len
    THEN \* p[metadataStart+1+metadataLength:] is out of range
         [upd EXCEPT !.fault = TRUE]
    ELSE [upd EXCEPT !.p = Compact(buf, len, ms, ml),
                     !.ret = Returned(k, ml)]

\* ------------------------------------------------------------- rc.Read
\* what the underlying source may deliver: (n, status)
SourceResults ==
    LET r == Len(wire) - off
        m == Min(lenP, r)
    IN
    IF rcCloseCalls > 0
    THEN {<<0, "err">>}                     \* read on a closed body
    ELSE {<<k, "nil">> : k \in 1..m}
         \cup {<<k, "err">> : k \in 0..m}   \* an error, alone or with bytes
         \cup (IF r <= lenP THEN {<<r, "EOF">>} ELSE {})

\* rc.Read stores the k wire bytes after offset o in p[0:k]
Fill(buf, o, k) ==
    [i \in 1..Len(buf) |-> IF i <= k THEN wire[o + i] ELSE buf[i]]

\* ------------------------------------------------------------ initial state
NoRead == [n |-> 0, err |-> "nil", ret |-> 0, rerr |-> "nil",
           path |-> "none", ms |-> 0, ml |-> 0,
           pos0 |-> 0, md0 |-> "nil", cb0 |-> 0, closes0 |-> 0, closes1 |-> 0,
           m |-> "none", cbSet |-> TRUE]

\* the Stream that Open returns (lines 83-93), over a body the server sends
Init ==
    /\ metaint \in 1..MaxMetaint
    /\ metadata = "nil"
    /\ pos = 0
    /\ callbackSet = TRUE
    /\ blocks \in Bodies
    /\ wire = WireOf(metaint, blocks)
    /\ off = 0
    /\ rcCloseCalls = 0
    /\ lenP \in {SmallBuf, BigBuf}
    /\ \E x \in 0..MaxExtraCap : p = Zeros(lenP + x)
    /\ pc = "idle"
    /\ last = NoRead
    /\ cbLog = <<>>
    /\ opened = OpenedWith(metaint)

\* ----------------------------------------------------------------- actions
\* the caller enters Read with a zeroed buffer; Read blocks in s.rc.Read(p)
\* (line 100)
ReadCall ==
    /\ opened.stream
    /\ pc = "idle"
    /\ pc' = "blocked"
    /\ p' = Zeros(Len(p))
    /\ last' = [NoRead EXCEPT !.pos0 = pos, !.md0 = metadata,
                              !.cb0 = Len(cbLog), !.closes0 = rcCloseCalls,
                              !.cbSet = callbackSet]
    /\ UNCHANGED <<opened, metaint, metadata, pos, callbackSet, blocks, wire, off,
                   rcCloseCalls, lenP, cbLog>>

\* rc.Read returns (n, err) and Read runs lines 102-127
ReadReturn ==
    /\ pc = "blocked"
    /\ \E sr \in SourceResults :
         LET k == sr[1]
             r == ReadBody(pos, metaint, metadata, callbackSet,
                           Fill(p, off, k), lenP, k, sr[2])
         IN
         /\ off' = off + k
         /\ pos' = r.pos
         /\ metadata' = r.metadata
         /\ p' = r.p
         /\ cbLog' = IF r.called THEN Append(cbLog, r.arg) ELSE cbLog
         /\ pc' = IF r.fault THEN "fault" ELSE "idle"
         /\ last' = [last EXCEPT !.n = k, !.err = sr[2], !.ret = r.ret,
                                 !.rerr = r.err, !.path = r.path,
                                 !.ms = r.ms, !.ml = r.ml,
                                 !.closes1 = rcCloseCalls, !.m = r.m]
    /\ UNCHANGED <<opened, metaint, callbackSet, blocks, wire, rcCloseCalls, lenP>>

\* Close (lines 131-134): return s.rc.Close()
Close ==
    /\ opened.stream
    /\ rcCloseCalls < MaxClose
    /\ rcCloseCalls' = rcCloseCalls + 1
    /\ UNCHANGED <<opened, metaint, metadata, pos, callbackSet, blocks, wire, off,
                   p, lenP, pc, last, cbLog>>

Next == ReadCall \/ ReadReturn \/ Close

Spec == Init /\ [][Next]_vars

\* before Open: no Stream yet; the caller will read with a small buffer
InitOpen ==
    /\ opened = NotOpened
    /\ metaint = 0
    /\ metadata = "nil"
    /\ pos = 0
    /\ callbackSet = FALSE
    /\ blocks = [u \in 1..NumBlocks |-> NoBlock]
    /\ wire = <<>>
    /\ off = 0
    /\ rcCloseCalls = 0
    /\ lenP = SmallBuf
    /\ p = Zeros(lenP)
    /\ pc = "idle"
    /\ last = NoRead
    /\ cbLog = <<>>

\* Open (lines 50-96); on success the Stream literal of lines 83-93 over the
\* response body.  A server that declares metaint <= 0 sends no audio runs.
Open ==
    /\ opened.state = "none"
    /\ \E url \in {"ok", "bad"}, conn \in BOOLEAN,
          hbr \in BrHeaders, hmi \in MiHeaders, bs \in Bodies :
         LET r == OpenResult(url, conn, hbr, hmi) IN
         /\ opened' = r
         /\ IF r.stream
            THEN /\ metaint' = r.metaint
                 /\ blocks' = bs
                 /\ wire' = WireOf(IF r.metaint > 0 THEN r.metaint ELSE 0, bs)
            ELSE UNCHANGED <<metaint, blocks, wire>>
    /\ metadata' = "nil"
    /\ pos' = 0
    /\ UNCHANGED <<callbackSet, off, rcCloseCalls, p, lenP, pc, last, cbLog>>

NextOpen == Open \/ ReadCall \/ ReadReturn \/ Close

SpecOpen == InitOpen /\ [][NextOpen]_vars

\* Read alone: Close changes only rcCloseCalls, which Read never sees except
\* as the (0, error) result that rc.Read may deliver at any time anyway
NextRead == ReadCall \/ ReadReturn

\* the Stream that Open returns, with the callback installed, for the largest
\* metaint and the two extreme capacities
InitRead ==
    /\ metaint = MaxMetaint
    /\ metadata = "nil"
    /\ pos = 0
    /\ callbackSet = TRUE
    /\ blocks \in Bodies
    /\ wire = WireOf(metaint, blocks)
    /\ off = 0
    /\ rcCloseCalls = 0
    /\ lenP \in {SmallBuf, BigBuf}
    /\ \E x \in {0, MaxExtraCap} : p = Zeros(lenP + x)
    /\ pc = "idle"
    /\ last = NoRead
    /\ cbLog = <<>>
    /\ opened = OpenedWith(metaint)

SpecRead == InitRead /\ [][NextRead]_vars

\* the caller assigns the exported field MetadataCallbackFunc (lines 33-34)
\* between two Reads: it installs a callback
SetCallback ==
    /\ opened.stream
    /\ pc = "idle"
    /\ ~callbackSet
    /\ callbackSet' = TRUE
    /\ UNCHANGED <<opened, metaint, metadata, pos, blocks, wire, off, rcCloseCalls,
                   p, lenP, pc, last, cbLog>>

\* Read and the assignment of the callback; Close touches neither
NextCb == ReadCall \/ ReadReturn \/ SetCallback

\* Open leaves MetadataCallbackFunc nil (lines 83-93 do not set it); the
\* caller reads with a buffer that holds a whole block
InitCb ==
    /\ metaint = MaxMetaint
    /\ metadata = "nil"
    /\ pos = 0
    /\ callbackSet = FALSE
    /\ blocks \in Bodies
    /\ wire = WireOf(metaint, blocks)
    /\ off = 0
    /\ rcCloseCalls = 0
    /\ lenP = BigBuf
    /\ p = Zeros(lenP)
    /\ pc = "idle"
    /\ last = NoRead
    /\ cbLog = <<>>
    /\ opened = OpenedWith(metaint)

\* the Stream with a caller that installs the callback at some point
SpecCb == InitCb /\ [][NextCb]_vars

TypeOK ==
    /\ metaint \in 1..MaxMetaint
    /\ pos \in Int
    /\ pc \in {"idle", "blocked", "fault"}
    /\ off \in 0..Len(wire)
    /\ rcCloseCalls \in 0..MaxClose
    /\ Len(p) \in lenP..(lenP + MaxExtraCap)

\* ------------------------------------------------ what the wire contains
\* offset at which unit u starts
RECURSIVE UnitStart(_)
UnitStart(u) ==
    IF u = 1 THEN 0
    ELSE UnitStart(u - 1) + metaint + 1 + blocks[u - 1][1] * BlockUnit

\* wire byte i (counted from 1) is an audio byte
IsAudioAt(i) ==
    \E u \in 1..(Len(blocks) + 1) :
        i > UnitStart(u) /\ i <= UnitStart(u) + metaint

\* the audio bytes among wire bytes a+1 .. b, in order
RECURSIVE AudioIn(_, _)
AudioIn(a, b) ==
    IF a >= b THEN <<>>
    ELSE (IF IsAudioAt(a + 1) THEN <<wire[a + 1]>> ELSE <<>>) \o AudioIn(a + 1, b)

\* the decoded non-empty blocks among units 1..u that end at or before offset o
RECURSIVE Announced(_, _)
Announced(u, o) ==
    IF u = 0 THEN <<>>
    ELSE IF blocks[u][1] > 0 /\ UnitStart(u + 1) <= o
         THEN Append(Announced(u - 1, o), NewMetadata(Payload(blocks[u])))
         ELSE Announced(u - 1, o)

\* s with runs of equal consecutive elements collapsed to one
RECURSIVE Collapse(_)
Collapse(s) ==
    IF Len(s) <= 1 THEN s
    ELSE LET c == Collapse(SubSeq(s, 1, Len(s) - 1))
         IN  IF s[Len(s)] = s[Len(s) - 1] THEN c ELSE Append(c, s[Len(s)])

\* a Read has left rc.Read (it returned or it faulted)
ReadDone == pc # "blocked" /\ last.path # "none"

\* a Read has returned to its caller
ReadReturned == pc = "idle" /\ last.path # "none"

\* the bytes the last Read handed back: p[0:bytesWritten]
ReturnedBytes == SubSeq(p, 1, last.ret)

\* the chunk rc delivered to the last Read
Chunk == SubSeq(wire, off - last.n + 1, off)

\* ------------------------------------------------------------------ claims

\* C1: every Read returns exactly the audio bytes of the chunk it received,
\* in order, so that for every split of the wire into chunks the bytes
\* returned so far are the audio bytes delivered so far, with every length
\* byte and metadata payload removed.
C1_ReadsReturnAudioOnly ==
    ReadReturned => ReturnedBytes = AudioIn(off - last.n, off)

\* C2: 0 <= pos <= metaint at the start of every Read (pos changes only
\* inside Read, so in every state).
C2_PosInRange == 0 <= pos /\ pos <= metaint

\* C3: no Read faults with an out-of-range access, and no Read processes a
\* block whose declared length extends past the end of the chunk just read.
C3_NoOutOfRange ==
    /\ pc # "fault"
    /\ ReadDone /\ last.path = "extract" => last.ms + 1 + last.ml <= last.n

\* C4: the snapshots passed to the callback are the non-empty blocks delivered
\* so far, in wire order, with consecutive equal blocks collapsed.
C4_CallbackSequence ==
    pc = "idle" => cbLog = Collapse(Announced(Len(blocks), off))

\* C5: when the audio left after the first removed block exceeds metaint
\* (the chunk holds another boundary), the returned bytes are audio only
\* and pos <= metaint when Read returns.
C5_EveryBoundaryRemoved ==
    (ReadReturned /\ last.path = "extract"
        /\ last.n - last.ms - 1 - last.ml > metaint)
    => (pos <= metaint /\ ReturnedBytes = AudioIn(off - last.n, off))

\* C6: however often Close is called, the source's close operation is
\* performed at most once.
C6_SourceClosedOnce == rcCloseCalls <= 1

\* C7: every Read returns the status rc.Read returned in that call, together
\* with the count of audio bytes among the bytes rc delivered in that call.
C7_StatusAndCount ==
    ReadDone =>
        /\ pc = "idle"
        /\ last.rerr = last.err
        /\ last.ret = Len(AudioIn(off - last.n, off))

\* C8: 0 <= bytesWritten <= n <= len(buffer) for every Read that returns.
C8_CountInRange ==
    ReadReturned => (0 <= last.ret /\ last.ret <= last.n /\ last.n <= lenP)

\* C9: a Read during which Close ran returns with the source's status, and
\* leaves pos and lastMetadata as lines 102-127 compute them from the pos and
\* lastMetadata the Read was entered with and the (n, status) it received.
C9_CloseDuringReadSafe ==
    (ReadDone /\ last.closes1 > last.closes0) =>
        LET r == ReadBody(last.pos0, metaint, last.md0, callbackSet,
                          Fill(Zeros(Len(p)), off - last.n, last.n),
                          lenP, last.n, last.err)
        IN  /\ pc = "idle"
            /\ last.rerr = last.err
            /\ pos = r.pos
            /\ metadata = r.metadata

\* C10: a Read with pos + n <= metaint returns the delivered bytes unchanged
\* and the count n, advances pos by n, keeps lastMetadata and does not call
\* the callback.
C10_PassThrough ==
    (ReadDone /\ last.pos0 + last.n <= metaint) =>
        /\ pc = "idle"
        /\ ReturnedBytes = Chunk
        /\ last.ret = last.n
        /\ last.rerr = last.err
        /\ pos = last.pos0 + last.n
        /\ metadata = last.md0
        /\ Len(cbLog) = last.cb0

\* a pass-through Read that started inside an audio run and got bytes
C10_Witness ==
    ReadReturned /\ last.path = "pass" /\ last.n > 0 /\ last.pos0 > 0

\* C11: a length byte of 0 at the boundary costs exactly one byte: the Read
\* returns n - 1 bytes, the chunk without its length byte, pos becomes
\* (pos + n) - metaint - 1, lastMetadata is kept and the callback is not called.
C11_EmptyBlock ==
    (ReadDone /\ last.pos0 <= metaint /\ last.pos0 + last.n > metaint
        /\ Chunk[metaint - last.pos0 + 1] = 0)
    => LET ms == metaint - last.pos0
       IN  /\ pc = "idle"
           /\ last.ret = last.n - 1
           /\ ReturnedBytes = SubSeq(Chunk, 1, ms) \o SubSeq(Chunk, ms + 2, last.n)
           /\ pos = (last.pos0 + last.n) - metaint - 1
           /\ metadata = last.md0
           /\ Len(cbLog) = last.cb0

\* a Read removed an empty block that had audio on both sides
C11_Witness ==
    /\ ReadReturned /\ last.path = "extract" /\ last.ml = 0
    /\ last.ms > 0 /\ last.n > last.ms + 1

\* C12: the callback is called only inside a Read, in the step in which that
\* Read replaces lastMetadata, with the snapshot lastMetadata then holds; and
\* with a callback installed every replacement is announced in that step.
C12_CallbackSynchronous ==
    [][ /\ cbLog' # cbLog =>
            /\ pc = "blocked" /\ pc' # "blocked"
            /\ metadata' # metadata
            /\ Append(cbLog, metadata') = cbLog'
        /\ (metadata' # metadata /\ callbackSet)
            => Append(cbLog, metadata') = cbLog'
      ]_vars

\* a Read replaced an earlier snapshot and announced the new one
C12_Witness ==
    /\ ReadReturned /\ last.md0 # "nil" /\ metadata # last.md0
    /\ Len(cbLog) = last.cb0 + 1 /\ cbLog[Len(cbLog)] = metadata

\* C15: a Read entered with 0 <= pos <= metaint whose chunk crosses one
\* boundary, holds the whole block and at most metaint audio bytes after it
\* returns n - 1 - blockLen bytes, chunk[0:metadataStart] followed by
\* chunk[metadataStart+1+blockLen : n], and leaves
\* pos = n - metadataStart - 1 - blockLen, which lies in 0..metaint.
C15_SingleBlockExtraction ==
    LET ms == metaint - last.pos0
        ml == Chunk[ms + 1] * BlockUnit
    IN  (ReadDone /\ 0 <= last.pos0 /\ last.pos0 <= metaint
            /\ last.pos0 + last.n > metaint
            /\ ms + 1 + ml <= last.n
            /\ last.n - ms - 1 - ml <= metaint)
        => /\ pc = "idle"
           /\ last.ret = last.n - 1 - ml
           /\ ReturnedBytes = SubSeq(Chunk, 1, ms)
                                \o SubSeq(Chunk, ms + 2 + ml, last.n)
           /\ pos = last.n - ms - 1 - ml
           /\ 0 <= pos /\ pos <= metaint

\* a Read removed a whole non-empty block with audio before and after it
C15_Witness ==
    /\ ReadReturned /\ last.path = "extract" /\ last.ml > 0
    /\ 0 < last.pos0 /\ last.pos0 < metaint
    /\ last.ms + 1 + last.ml < last.n
    /\ pos <= metaint

\* C16: pos is the number of bytes returned to the caller since the most
\* recently removed block: a Read that removes no block adds the bytes it
\* returns to pos, and a Read that removes a block leaves in pos the number
\* of bytes it returns from behind that block.
C16_PosCountsReturned ==
    ReadReturned =>
        IF last.path = "pass"
        THEN pos = last.pos0 + Len(ReturnedBytes)
        ELSE pos = Len(SubSeq(ReturnedBytes, last.ms + 1, Len(ReturnedBytes)))

\* C17: whether or not a callback is installed, after a Read decoded a block
\* lastMetadata is that block's snapshot; the callback is called in that Read
\* exactly when one was installed at its entry and the snapshot differs from
\* the one stored before, also when that one was stored with no callback set.
C17_DetectionWithoutCallback ==
    (ReadDone /\ last.m # "none") =>
        /\ last.m = metadata
        /\ Len(cbLog) > last.cb0 <=> (last.cbSet /\ last.m # last.md0)

\* a block equal to one stored while no callback was installed arrives after
\* a callback was installed, and nothing has ever been announced
C17_Witness ==
    /\ ReadReturned /\ last.cbSet
    /\ last.m # "none" /\ last.m = last.md0
    /\ cbLog = <<>>

\* ----------------------------------------------------------- claims on Open

\* a header value is decimal text: digits, after an optional sign
IsNumericText(h) ==
    /\ h # <<>>
    /\ \A i \in 1..Len(h) :
         \/ h[i] \in {"0", "1", "2", "3", "4", "5", "6", "7", "8", "9"}
         \/ (i = 1 /\ Len(h) > 1 /\ h[i] \in {"+", "-"})

\* C13: a Stream that Open returned has metaint > 0, the metaint of the
\* header ever after, and before its first Read pos = 0 and no lastMetadata.
C13_OpenedStream ==
    opened.state = "ok" =>
        /\ metaint > 0
        /\ metaint = opened.metaint
        /\ (pc = "idle" /\ last.path = "none") => (pos = 0 /\ metadata = "nil")

\* C14: Open returns an error and no Stream whenever the connection fails or
\* the response's bitrate or metadata-interval header is absent or not numeric
\* (the cases of a request that was built and sent), and it returns a Stream
\* only when both headers are numeric.
C14_OpenFailsFast ==
    opened.state # "none" =>
        /\ (/\ opened.in.url = "ok"
            /\ \/ ~opened.in.conn
               \/ ~IsNumericText(opened.in.hbr)
               \/ ~IsNumericText(opened.in.hmi))
            => (opened.state = "err" /\ ~opened.stream /\ opened.err # "nil")
        /\ opened.stream =>
            (IsNumericText(opened.in.hbr) /\ IsNumericText(opened.in.hmi)
                /\ opened.in.conn)

\* Open refused a response whose bitrate is numeric and whose metaint is not
C14_Witness ==
    /\ opened.state = "err" /\ opened.err = "cannot parse metaint"
    /\ opened.in.hmi # <<>>

\* C18: Open never faults: it returns a Stream and no error, or no Stream
\* and an error, also when the request cannot be built from the URL.
C18_OpenNeverFaults ==
    opened.state # "none" =>
        /\ opened.state # "fault"
        /\ opened.stream <=> opened.err = "nil"
====
